---- MODULE Spec2Model ----
(***************************************************************************)
(* Model of TowedCameraPipeline (src/towed_camera.pipeline.py).            *)
(*                                                                         *)
(* Two operations are modelled, each with its own specification:           *)
(*   Spec        _package: load the TAG telemetry table, walk the          *)
(*               destination tree, build the manifest (data_mapping).      *)
(*   SpecImport  _import: create the destination buckets and hard-link     *)
(*               the source files into them, run after run.                *)
(*                                                                         *)
(* Conventions.  Python's None is the empty sequence and a present value x *)
(* is <<x>> (Some(x)).  An exception that leaves the operation is recorded *)
(* in pc = "raised" with its class name in exc.  Times are whole seconds   *)
(* of one day; unfloored telemetry times are microseconds.                 *)
(***************************************************************************)
EXTENDS Integers, Sequences, FiniteSets, TLC

VARIABLES
    \* ---- _package ----
    tree,            \* the files and directories under data_dir (rglob("*"))
    csv,             \* content of tag_files[0]
    sensor_data_df,  \* the loaded table, FinalTime floored to seconds
    data_mapping,    \* the manifest under construction / returned
    visited,         \* paths the file loop has already iterated over
    pc,              \* "start" | "loop" | "done" | "raised" ("parked" under SpecImport)
    exc,             \* class of the exception that left _package, or "none"
    culprit,         \* Some(path whose iteration raised it), or None
    log,             \* warnings logged by _package
    \* ---- _import ----
    src,             \* entries of the source tree: [dir, name, isdir]
    srcDirs,         \* the source subdirectories that exist
    dst,             \* files in the destination buckets: [dir, name]
    dstDirs,         \* the destination bucket directories that exist
    dry_run,         \* self.dry_run of the pipeline object of the current call
    ipc,             \* "idle" | "data" | "stills" | "video" ("parked" under Spec)
    todo,            \* entries the current directory scan has still to yield
    before,          \* the destination tree when the current call began
    ilog,            \* log records of the current call: <<level, dir, name>>
    runs,            \* number of _import calls that have ended (either way)
    hist             \* per ended call: where it began, where and how it ended

pvars == <<tree, csv, sensor_data_df, data_mapping, visited, pc, exc, culprit, log>>
ivars == <<src, srcDirs, dst, dstDirs, dry_run, ipc, todo, before, ilog, runs, hist>>
vars == <<tree, csv, sensor_data_df, data_mapping, visited, pc, exc, culprit, log,
          src, srcDirs, dst, dstDirs, dry_run, ipc, todo, before, ilog, runs, hist>>

\* ------------------------------------------------------------------ bounds
MaxFiles == 2      \* entries under data_dir besides the TAG file
MaxRows == 3       \* rows of the telemetry table
MaxSrc == 3        \* entries of the source tree
MaxRuns == 2       \* consecutive _import calls

\* ------------------------------------------------------------------ helpers
None == <<>>
Some(x) == <<x>>

RECURSIVE SeqsUpTo(_, _)
SeqsUpTo(S, n) ==
    IF n = 0 THEN {<<>>}
    ELSE LET shorter == SeqsUpTo(S, n - 1)
         IN  shorter \cup {Append(s, x) : s \in {t \in shorter : Len(t) = n - 1}, x \in S}

SubsetsUpTo(S, n) == {T \in SUBSET S : Cardinality(T) <= n}

\* ------------------------------------------------------------------ time
\* Seconds in a second of the "%f" field (microseconds), the unit floor("s") removes.
MicrosPerSecond == 1000000

\* pd.to_datetime(cell, format="%Y-%m-%d %H:%M:%S.%f"): the cells that parse, and
\* the instant each denotes, in microseconds of the day.  Any other cell is a ValueError.
FinalTimeCells ==
    [c \in {"2018-01-01 00:00:10.900000", "2018-01-01 00:00:11.400000",
            "2018-01-01 00:00:20.000000", "2018-01-01 00:00:30.000000"} |->
        CASE c = "2018-01-01 00:00:10.900000" -> 10900000
          [] c = "2018-01-01 00:00:11.400000" -> 11400000
          [] c = "2018-01-01 00:00:20.000000" -> 20000000
          [] c = "2018-01-01 00:00:30.000000" -> 30000000]

BadCell == "01/01/2018 00:00"

\* .dt.floor("s"), result in whole seconds
Floor(us) == us \div MicrosPerSecond

\* pd.to_datetime(token, format="%Y%m%dT%H%M%SZ"): the tokens that parse, in seconds.
CompactTokens ==
    [k \in {"20180101T000011Z", "20180101T000012Z", "20180101T000024Z"} |->
        CASE k = "20180101T000011Z" -> 11
          [] k = "20180101T000012Z" -> 12
          [] k = "20180101T000024Z" -> 24]

BadToken == "20181301T000000Z"

\* Timestamp.isoformat() of a whole-second instant
isoformat(t) ==
    CASE t = 10 -> "2018-01-01T00:00:10"
      [] t = 11 -> "2018-01-01T00:00:11"
      [] t = 20 -> "2018-01-01T00:00:20"
      [] t = 30 -> "2018-01-01T00:00:30"

Abs(x) == IF x < 0 THEN -x ELSE x

\* ------------------------------------------------------------------ _package: inputs
\* data_dir, as path components; the collection directory is its parent.
DataDir == <<"collections", "IN2018_V06_001", "data">>

StemA == <<"IN2018", "V06", "001", "SCP", "0001">>

TagFile   == [dir |-> "data", segs |-> <<"IN2018", "V06", "TAG", "001">>, ext |-> ".CSV", isdir |-> FALSE]
StillA    == [dir |-> "stills", segs |-> Append(StemA, "20180101T000011Z"), ext |-> ".JPG", isdir |-> FALSE]
StillB    == [dir |-> "stills", segs |-> Append(StemA, "20180101T000012Z"), ext |-> ".jpg", isdir |-> FALSE]
Video     == [dir |-> "video", segs |-> Append(StemA, "20180101T000024Z"), ext |-> ".MP4", isdir |-> FALSE]
ShortName == [dir |-> "stills", segs |-> <<"photo1">>, ext |-> ".JPG", isdir |-> FALSE]
BadStamp  == [dir |-> "video", segs |-> Append(StemA, BadToken), ext |-> ".mp4", isdir |-> FALSE]
Thumb     == [dir |-> "thumbnails", segs |-> StillA.segs \o <<"THUMB">>, ext |-> ".JPG", isdir |-> FALSE]
Overview  == [dir |-> "", segs |-> <<"IN2018", "V06", "001", "OVERVIEW">>, ext |-> ".JPG", isdir |-> FALSE]
StillsDir == [dir |-> "", segs |-> <<"stills">>, ext |-> "", isdir |-> TRUE]

OtherEntries == {StillA, StillB, Video, ShortName, BadStamp, Thumb, Overview, StillsDir}

Trees == {T \cup tag : T \in SubsetsUpTo(OtherEntries, MaxFiles), tag \in {{}, {TagFile}}}

\* A TAG file: zero bytes (empty), or a header with or without the FinalTime
\* column and rows.  Pres stands for the sensor columns the code reads
\* (UsblLatitude, UsblLongitude, Pres), present and numeric in every table here;
\* its value numbers the rows, so that equal timestamps remain distinguishable.
\* FinalTime cells are never blank.
MkCsv(empty, hasFT, cells) ==
    [empty |-> empty, hasFinalTime |-> hasFT,
     rows |-> [i \in 1..Len(cells) |-> [FinalTime |-> cells[i], Pres |-> i]]]

NoCsv == MkCsv(TRUE, FALSE, <<>>)

Csvs ==
    {NoCsv, MkCsv(FALSE, FALSE, <<>>), MkCsv(FALSE, TRUE, <<BadCell>>)}
    \cup {MkCsv(FALSE, TRUE, cells) : cells \in SeqsUpTo(DOMAIN FinalTimeCells, MaxRows)}

\* ------------------------------------------------------------------ _package: code
\* list((data_dir / "data").glob("*TAG*.CSV"))
tag_files ==
    {f \in tree : /\ f.dir = "data"
                  /\ f.ext = ".CSV"
                  /\ \E i \in 1..Len(f.segs) : f.segs[i] = "TAG"}

\* pd.read_csv + pd.to_datetime(FinalTime).dt.floor("s"): the exception it ends
\* with, or "none".
ReadError(c) ==
    IF c.empty THEN "EmptyDataError"
    ELSE IF ~c.hasFinalTime THEN "KeyError"
    ELSE IF \E i \in 1..Len(c.rows) : c.rows[i].FinalTime \notin DOMAIN FinalTimeCells
         THEN "ValueError"
    ELSE "none"

\* except (pd.errors.EmptyDataError, pd.errors.ParserError, ValueError, OSError)
CaughtOnRead == {"EmptyDataError", "ParserError", "ValueError", "OSError"}

LoadTable(c) ==
    [i \in 1..Len(c.rows) |->
        [FinalTime |-> Floor(FinalTimeCells[c.rows[i].FinalTime]), Pres |-> c.rows[i].Pres]]

\* str.lower() of a suffix
Lower(s) ==
    CASE s = ".JPG" -> ".jpg"
      [] s = ".MP4" -> ".mp4"
      [] s = ".CSV" -> ".csv"
      [] OTHER -> s

\* "_M" in file_path.name, for a marker M that is one whole segment
HasMarker(f, m) == \E i \in 2..Len(f.segs) : f.segs[i] = m

\* the condition of the first branch of the file loop
IsVisualAssetNoThumbTest(f) ==
    /\ ~f.isdir
    /\ Lower(f.ext) \in {".jpg", ".mp4"}
    /\ ~HasMarker(f, "OVERVIEW")

IsVisualAsset(f) ==
    /\ ~f.isdir
    /\ Lower(f.ext) \in {".jpg", ".mp4"}
    /\ ~HasMarker(f, "THUMB")
    /\ ~HasMarker(f, "OVERVIEW")

\* deployment_id / file_path.relative_to(data_dir)
output_file_path(f) == <<DataDir[Len(DataDir) - 1], f.dir, f.segs, f.ext>>

\* sensor_data_df.loc[sensor_data_df["FinalTime"] == target_datetime]
ExactRowsNearest(df, t) ==
    SelectSeq(df, LAMBDA r : \A j \in 1..Len(df) : Abs(r.FinalTime - t) <= Abs(df[j].FinalTime - t))

ExactRows(df, t) == SelectSeq(df, LAMBDA r : r.FinalTime = t)

\* matching_row.iloc[0]
FirstRow(rows) == rows[1]

\* Series.idxmin(): the label of the first occurrence of the minimum
idxminLast(diffs) ==
    CHOOSE i \in DOMAIN diffs :
        /\ \A j \in DOMAIN diffs : diffs[i] <= diffs[j]
        /\ \A j \in DOMAIN diffs : j > i => diffs[j] > diffs[i]

idxmin(diffs) ==
    CHOOSE i \in DOMAIN diffs :
        /\ \A j \in DOMAIN diffs : diffs[i] <= diffs[j]
        /\ \A j \in DOMAIN diffs : j < i => diffs[j] > diffs[i]

\* abs(sensor_data_df["FinalTime"] - target_datetime)
time_diffs(df, t) == [i \in 1..Len(df) |-> Abs(df[i].FinalTime - t)]

\* first_row.map(isoformat of Timestamps).to_dict()
RawRecord(row) == [FinalTime |-> isoformat(row.FinalTime), Pres |-> row.Pres]

\* self._metadata_class(ImageData(image_datetime=..., image_altitude_meters=-Pres, ...))
Metadata(row, t) == [image_datetime |-> t, image_altitude_meters |-> 0 - row.Pres]

\* raise ValueError("Unsupported file type"): the exception, told from the other
\* ValueErrors of the loop by its message
UnsupportedFileType == "ValueError: Unsupported file type"

\* data_mapping[file_path] = output_file_path, [metadata], first_row.to_dict()
MatchedEntryNoMetadata(f, row, t) ==
    [out |-> output_file_path(f), metadata |-> None, raw |-> Some(RawRecord(row))]

MatchedEntry(f, row, t) ==
    [out |-> output_file_path(f), metadata |-> Some(<<Metadata(row, t)>>), raw |-> Some(RawRecord(row))]

\* data_mapping[file_path] = output_file_path, None, None
PassThrough(f) == [out |-> output_file_path(f), metadata |-> None, raw |-> None]

Result(err, entry) == [raise |-> err, entry |-> entry]

\* "if not matching_row.empty:" has no else: an unmatched asset gets no entry
UnmatchedKept(f) == Result("none", Some(PassThrough(f)))

Unmatched(f) == Result("none", None)

\* the first branch of the loop body for one eligible file
VisualAsset(f, df) ==
    IF Len(f.segs) < 6 THEN Result("IndexError", None)
    ELSE LET iso_timestamp == f.segs[6] IN
    IF iso_timestamp \notin DOMAIN CompactTokens THEN Result("ValueError", None)
    ELSE LET target_datetime == CompactTokens[iso_timestamp] IN
    IF Lower(f.ext) = ".jpg"
    THEN LET matching_row == ExactRows(df, target_datetime) IN
         IF matching_row = <<>> THEN Unmatched(f)
         ELSE Result("none", Some(MatchedEntry(f, FirstRow(matching_row), target_datetime)))
    ELSE IF Lower(f.ext) = ".mp4"
    THEN IF df = <<>> THEN Result("ValueError", None)
         ELSE Result("none",
                     Some(MatchedEntry(f, df[idxmin(time_diffs(df, target_datetime))], target_datetime)))
    ELSE Result(UnsupportedFileType, None)

\* one iteration of "for file_path in file_paths"
LoopBody(f, df) ==
    IF IsVisualAsset(f) THEN VisualAsset(f, df)
    ELSE IF ~f.isdir THEN Result("none", Some(PassThrough(f)))
    ELSE Result("none", None)

\* ------------------------------------------------------------------ _package: actions
\* lines 227-248: find the TAG files, read the first, floor FinalTime
PackageLoad ==
    /\ pc = "start"
    /\ IF tag_files = {}
       THEN /\ pc' = "done"
            /\ log' = log \cup {"No TAG CSV files found"}
            /\ UNCHANGED <<sensor_data_df, exc>>
       ELSE LET err == ReadError(csv) IN
            IF err = "none"
            THEN /\ pc' = "loop"
                 /\ sensor_data_df' = LoadTable(csv)
                 /\ UNCHANGED <<log, exc>>
            ELSE IF err \in CaughtOnRead
            THEN /\ pc' = "done"
                 /\ log' = log \cup {"Failed to process TAG CSV file"}
                 /\ UNCHANGED <<sensor_data_df, exc>>
            ELSE /\ pc' = "raised"
                 /\ exc' = err
                 /\ UNCHANGED <<sensor_data_df, log>>
    /\ UNCHANGED <<tree, csv, data_mapping, visited, culprit>>
    /\ UNCHANGED ivars

\* lines 250-410: the next path rglob yields (directory order is the platform's)
PackageFile ==
    /\ pc = "loop"
    /\ \E f \in tree \ visited :
         LET r == LoopBody(f, sensor_data_df) IN
         /\ visited' = visited \cup {f}
         /\ IF r.raise # "none"
            THEN /\ pc' = "raised"
                 /\ exc' = r.raise
                 /\ culprit' = Some(f)
                 /\ UNCHANGED data_mapping
            ELSE /\ data_mapping' = IF r.entry = None THEN data_mapping
                                    ELSE (f :> r.entry[1]) @@ data_mapping
                 /\ UNCHANGED <<pc, exc, culprit>>
    /\ UNCHANGED <<tree, csv, sensor_data_df, log>>
    /\ UNCHANGED ivars

\* line 412: return data_mapping
PackageReturn ==
    /\ pc = "loop"
    /\ visited = tree
    /\ pc' = "done"
    /\ UNCHANGED <<tree, csv, sensor_data_df, data_mapping, visited, exc, culprit, log>>
    /\ UNCHANGED ivars

EmptyMapping == [f \in {} |-> PassThrough(TagFile)]

PackageInit ==
    /\ tree \in Trees
    /\ csv \in (IF TagFile \in tree THEN Csvs ELSE {NoCsv})
    /\ sensor_data_df = <<>>
    /\ data_mapping = EmptyMapping
    /\ visited = {}
    /\ pc = "start"
    /\ exc = "none"
    /\ culprit = None
    /\ log = {}

ImportParked ==
    /\ src = {}
    /\ srcDirs = {}
    /\ dst = {}
    /\ dstDirs = {}
    /\ dry_run = FALSE
    /\ ipc = "parked"
    /\ todo = {}
    /\ before = [files |-> {}, dirs |-> {}]
    /\ ilog = {}
    /\ runs = 0
    /\ hist = <<>>

Init == PackageInit /\ ImportParked

Next == PackageLoad \/ PackageFile \/ PackageReturn

Spec == Init /\ [][Next]_vars

\* ------------------------------------------------------------------ _package: properties
\* The vocabulary of the properties, stated on the inputs (tree, csv).
TableLoaded ==
    /\ TagFile \in tree
    /\ ~csv.empty
    /\ csv.hasFinalTime
    /\ \A i \in 1..Len(csv.rows) : csv.rows[i].FinalTime \in DOMAIN FinalTimeCells

NoMarker(f) == \A i \in 2..Len(f.segs) : f.segs[i] \notin {"THUMB", "OVERVIEW"}
IsStill(f) == ~f.isdir /\ f.ext \in {".jpg", ".JPG"} /\ NoMarker(f)
IsVideo(f) == ~f.isdir /\ f.ext \in {".mp4", ".MP4"} /\ NoMarker(f)
HasStamp(f) == Len(f.segs) >= 6 /\ f.segs[6] \in DOMAIN CompactTokens
Stamp(f) == CompactTokens[f.segs[6]]
FlooredTime(i) == Floor(FinalTimeCells[csv.rows[i].FinalTime])
RowIds == 1..Len(csv.rows)

\* paths whose iteration ended normally
Completed == {f \in visited : culprit # Some(f)}

SetMin(S) == CHOOSE x \in S : \A y \in S : x <= y
TelemetryOf(i) == Some([FinalTime |-> isoformat(FlooredTime(i)), Pres |-> csv.rows[i].Pres])

\* C1: a still image whose filename timestamp equals the floored FinalTime of some
\* telemetry row carries, once the loop has handled it, the first such row in table
\* order as its raw record; no still image ever carries a row whose floored
\* FinalTime differs from its timestamp; a returned manifest has handled every file.
C1_StillCarriesFirstExactRow ==
    /\ \A f \in Completed :
         (IsStill(f) /\ HasStamp(f) /\ \E i \in RowIds : FlooredTime(i) = Stamp(f)) =>
            /\ f \in DOMAIN data_mapping
            /\ data_mapping[f].raw =
                 TelemetryOf(SetMin({i \in RowIds : FlooredTime(i) = Stamp(f)}))
    /\ \A f \in DOMAIN data_mapping :
         (IsStill(f) /\ data_mapping[f].raw # None) =>
            data_mapping[f].raw[1].FinalTime = isoformat(Stamp(f))
    /\ (pc = "done" /\ TableLoaded) => Completed = tree

\* still at :11; rows 10.9 (0.1 s away unfloored, floors to :10), 11.4, 11.4
C1_Witness ==
    /\ pc = "done"
    /\ StillA \in DOMAIN data_mapping
    /\ Len(csv.rows) = 3
    /\ csv.rows[1].FinalTime = "2018-01-01 00:00:10.900000"
    /\ csv.rows[2].FinalTime = "2018-01-01 00:00:11.400000"
    /\ csv.rows[3].FinalTime = "2018-01-01 00:00:11.400000"
    /\ data_mapping[StillA].raw = Some([FinalTime |-> "2018-01-01T00:00:11", Pres |-> 2])

\* C2: a video with a parseable filename timestamp, handled against a non-empty
\* table, carries the row minimising |floored FinalTime - timestamp|, the first of
\* them in table order on a tie; handling it never raises; a returned manifest has
\* handled every file.
C2_VideoCarriesFirstNearestRow ==
    /\ \A f \in visited :
         (IsVideo(f) /\ HasStamp(f) /\ RowIds # {}) =>
            LET d(i) == Abs(FlooredTime(i) - Stamp(f))
                best == SetMin({i \in RowIds : \A j \in RowIds : d(i) <= d(j)})
            IN  /\ culprit # Some(f)
                /\ f \in DOMAIN data_mapping
                /\ data_mapping[f].raw = TelemetryOf(best)
    /\ (pc = "done" /\ TableLoaded) => visited = tree

\* rows at :10 (10.9 floored), :20, :30 and the video at :24 give the row at :20
C2_Witness ==
    /\ pc = "done"
    /\ Video \in DOMAIN data_mapping
    /\ Len(csv.rows) = 3
    /\ csv.rows[1].FinalTime = "2018-01-01 00:00:10.900000"
    /\ csv.rows[2].FinalTime = "2018-01-01 00:00:20.000000"
    /\ csv.rows[3].FinalTime = "2018-01-01 00:00:30.000000"
    /\ data_mapping[Video].raw = Some([FinalTime |-> "2018-01-01T00:00:20", Pres |-> 2])

\* C3 (as claimed): once _package has ended on a TAG file that parses as a table
\* without a FinalTime column, it has returned an empty manifest and logged a warning.
C3_MissingColumnGivesEmptyManifest ==
    (TagFile \in tree /\ ~csv.empty /\ ~csv.hasFinalTime /\ pc # "start") =>
        /\ pc = "done"
        /\ data_mapping = EmptyMapping
        /\ log # {}

\* C4 (as claimed): when the table loaded and the tree holds a .jpg/.mp4 (no
\* marker) whose stem lacks a valid sixth segment, _package still ends by returning
\* a manifest in which every other file has the entry its own iteration produces.
C4_BadFilenameFailsAlone ==
    (TableLoaded /\ pc \in {"done", "raised"}
        /\ \E b \in tree : (IsStill(b) \/ IsVideo(b)) /\ ~HasStamp(b)) =>
        /\ pc = "done"
        /\ \A g \in tree :
             ((IsStill(g) \/ IsVideo(g)) /\ ~HasStamp(g)) \/
             LET r == LoopBody(g, LoadTable(csv))
             IN  IF r.entry = None THEN g \notin DOMAIN data_mapping
                 ELSE g \in DOMAIN data_mapping /\ data_mapping[g] = r.entry[1]

UnmatchedStill(f) ==
    IsStill(f) /\ HasStamp(f) /\ \A i \in RowIds : FlooredTime(i) # Stamp(f)

\* C5 (as claimed): in a returned manifest a still image whose timestamp equals no
\* row's floored FinalTime has an entry with no metadata and no raw record.
C5_UnmatchedStillKept ==
    (pc = "done" /\ TableLoaded) =>
        \A f \in tree :
            UnmatchedStill(f) =>
                /\ f \in DOMAIN data_mapping
                /\ data_mapping[f].metadata = None
                /\ data_mapping[f].raw = None

\* C5 (amended): handling a still image whose timestamp equals no row's floored
\* FinalTime never raises, and the image gets no manifest entry at all: it is
\* absent from the mapping from then on and from the manifest returned.
C5_UnmatchedStillOmitted ==
    /\ \A f \in visited :
         (TableLoaded /\ UnmatchedStill(f)) =>
            /\ culprit # Some(f)
            /\ f \notin DOMAIN data_mapping
    /\ (pc = "done" /\ TableLoaded) => visited = tree

\* still at :12 matches nothing; the video beside it is matched and returned
C5_Witness ==
    /\ pc = "done"
    /\ TableLoaded
    /\ StillB \in tree
    /\ Video \in DOMAIN data_mapping
    /\ StillB \notin DOMAIN data_mapping

\* C6: every regular file that is not an eligible visual asset has, once the loop
\* has handled it, an entry with metadata None and raw record None; directories are
\* never keys; a returned manifest (table loaded) has handled every file.
C6_OtherFilesPassThrough ==
    /\ \A f \in Completed :
         (~f.isdir /\ ~IsStill(f) /\ ~IsVideo(f)) =>
            /\ f \in DOMAIN data_mapping
            /\ data_mapping[f].metadata = None
            /\ data_mapping[f].raw = None
    /\ \A f \in DOMAIN data_mapping : ~f.isdir
    /\ (pc = "done" /\ TableLoaded) => Completed = tree

\* the TAG file, a thumbnail and a directory beside a row that the thumbnail's
\* sixth segment would match
C6_Witness ==
    /\ pc = "done"
    /\ TableLoaded
    /\ tree = {TagFile, Thumb, StillsDir}
    /\ \E i \in RowIds : FlooredTime(i) = 11
    /\ DOMAIN data_mapping = {TagFile, Thumb}
    /\ data_mapping[Thumb] = PassThrough(Thumb)

\* ------------------------------------------------------------------ _import: strings
\* File names are sequences of characters, so that the code's string tests are
\* computed rather than assumed.
EndsWith(s, suffix) ==
    /\ Len(s) >= Len(suffix)
    /\ SubSeq(s, Len(s) - Len(suffix) + 1, Len(s)) = suffix

\* index of the last occurrence of c in s, 0 when there is none
LastIndexOf(s, c) ==
    LET hits == {i \in 1..Len(s) : s[i] = c}
    IN  IF hits = {} THEN 0 ELSE CHOOSE i \in hits : \A j \in hits : j <= i

\* s.rsplit(sep, 1): one part when sep does not occur, else two
rsplit1(s, sep) ==
    LET k == LastIndexOf(s, sep)
    IN  IF k = 0 THEN <<s>> ELSE <<SubSeq(s, 1, k - 1), SubSeq(s, k + 1, Len(s))>>

\* s.split(sep)[-1]
SplitLast(s, sep) == SubSeq(s, LastIndexOf(s, sep) + 1, Len(s))

\* ------------------------------------------------------------------ _import: inputs
Buckets == {"data", "stills", "video"}

\* data_dir.parent.name
CollectionName == <<"V", "_", "0", "1">>

SrcFile(d, n) == [dir |-> d, name |-> n, isdir |-> FALSE]

SourceEntries ==
    { SrcFile("data", <<"A", "0", "1", ".", "C", "S", "V">>),
      SrcFile("data", <<"A", "0", "2", ".", "C", "S", "V">>),
      SrcFile("stills", <<"s", ".", "J", "P", "G">>),
      SrcFile("stills", <<"s", ".", "j", "p", "g">>),
      SrcFile("video", <<"a", "Z", ".", "M", "P", "4">>),
      SrcFile("video", <<"a", "_", "Z", ".", "M", "P", "4">>),
      SrcFile("video", <<"a", ".", "M", "P", "4">>),
      SrcFile("video", <<"a", "Z">>),
      [dir |-> "video", name |-> <<"d", "Z", ".", "d">>, isdir |-> TRUE] }

\* ------------------------------------------------------------------ _import: code
\* deployment_id = data_dir.parent.name.split("_")[-1]
deployment_id == SplitLast(CollectionName, "_")

\* source_dir.glob(pattern) for a pattern "*<suffix>" (case-sensitive)
Glob(d, suffix) == {f \in src : f.dir = d /\ EndsWith(f.name, suffix)}

\* source_dir.iterdir()
Iterdir(d) == {f \in src : f.dir = d}

\* "if not source_dir.exists(): return", then the scan
Scan(d, entries) == IF d \in srcDirs THEN entries ELSE {}

DestOf(f, d) == [dir |-> d, name |-> f.name]

\* _create_hard_link: the destination files after the call (os.link fails here
\* only because the destination exists; the bucket directory always does)
Linked(files, f, d) == IF dry_run THEN files ELSE files \cup {DestOf(f, d)}

\* _create_hard_link: the record it logs, if any
LinkLog(files, f, d) ==
    IF dry_run THEN {}
    ELSE IF DestOf(f, d) \in files THEN {<<"warning: already exists", d, f.name>>}
    ELSE {<<"debug: created hard link", d, f.name>>}

\* the condition of _import_data_files
DataFileSelected(f) == EndsWith(f.name, deployment_id \o <<".", "C", "S", "V">>)

\* the condition of _import_video_files, on the name without its extension
VideoNameSelected(name_without_ext) ==
    EndsWith(name_without_ext, <<"Z">>) /\ ~EndsWith(name_without_ext, <<"_", "Z">>)

\* the call ends: by return, or by the named exception
EndRun(outcome) ==
    /\ ipc' = "idle"
    /\ todo' = {}
    /\ runs' = runs + 1
    /\ hist' = Append(hist, [dry |-> dry_run, phase |-> ipc, outcome |-> outcome,
                             before |-> before,
                             after |-> [files |-> dst', dirs |-> dstDirs'],
                             log |-> ilog'])

\* ------------------------------------------------------------------ _import: actions
\* a pipeline object is constructed (dry_run) and _import called: lines 154-172,
\* up to the scan of the source data directory
ImportCall ==
    /\ ipc = "idle"
    /\ runs < MaxRuns
    /\ dry_run' \in BOOLEAN
    /\ before' = [files |-> dst, dirs |-> dstDirs]
    /\ dstDirs' = dstDirs \cup Buckets
    /\ ilog' = {}
    /\ ipc' = "data"
    /\ todo' = Scan("data", Glob("data", <<".", "C", "S", "V">>))
    /\ UNCHANGED <<src, srcDirs, dst, runs, hist>>
    /\ UNCHANGED pvars

\* _import_data_files: one iteration of the loop
ImportDataFile ==
    /\ ipc = "data"
    /\ \E f \in todo :
         /\ todo' = todo \ {f}
         /\ IF DataFileSelected(f)
            THEN dst' = Linked(dst, f, "data") /\ ilog' = ilog \cup LinkLog(dst, f, "data")
            ELSE UNCHANGED <<dst, ilog>>
    /\ UNCHANGED <<src, srcDirs, dstDirs, dry_run, ipc, before, runs, hist>>
    /\ UNCHANGED pvars

\* _import_data_files returns; _import_still_images scans the stills directory
ImportStillsScan ==
    /\ ipc = "data"
    /\ todo = {}
    /\ ipc' = "stills"
    /\ todo' = Scan("stills", Glob("stills", <<".", "J", "P", "G">>))
    /\ UNCHANGED <<src, srcDirs, dst, dstDirs, dry_run, before, ilog, runs, hist>>
    /\ UNCHANGED pvars

\* _import_still_images: first iteration.  The method is a @staticmethod, so the
\* name self in "self._create_hard_link(...)" is unbound: NameError.
ImportStillsFile ==
    /\ ipc = "stills"
    /\ todo # {}
    /\ UNCHANGED <<dst, dstDirs, ilog>>
    /\ EndRun("NameError")
    /\ UNCHANGED <<src, srcDirs, dry_run, before>>
    /\ UNCHANGED pvars

\* _import_still_images returns; _import_video_files scans the video directory
ImportVideoScan ==
    /\ ipc = "stills"
    /\ todo = {}
    /\ ipc' = "video"
    /\ todo' = Scan("video", Iterdir("video"))
    /\ UNCHANGED <<src, srcDirs, dst, dstDirs, dry_run, before, ilog, runs, hist>>
    /\ UNCHANGED pvars

\* _import_video_files: one iteration of the loop
ImportVideoFile ==
    /\ ipc = "video"
    /\ \E f \in todo :
         IF f.isdir
         THEN /\ todo' = todo \ {f}
              /\ UNCHANGED <<dst, dstDirs, ilog, ipc, runs, hist>>
         ELSE LET parts == rsplit1(f.name, ".") IN
              IF Len(parts) # 2
              THEN /\ UNCHANGED <<dst, dstDirs, ilog>>
                   /\ EndRun("ValueError")
              ELSE /\ todo' = todo \ {f}
                   /\ IF VideoNameSelected(parts[1])
                      THEN /\ dst' = Linked(dst, f, "video")
                           /\ ilog' = ilog \cup LinkLog(dst, f, "video")
                      ELSE UNCHANGED <<dst, ilog>>
                   /\ UNCHANGED <<dstDirs, ipc, runs, hist>>
    /\ UNCHANGED <<src, srcDirs, dry_run, before>>
    /\ UNCHANGED pvars

\* _import_video_files and _import return
ImportReturn ==
    /\ ipc = "video"
    /\ todo = {}
    /\ UNCHANGED <<dst, dstDirs, ilog>>
    /\ EndRun("returned")
    /\ UNCHANGED <<src, srcDirs, dry_run, before>>
    /\ UNCHANGED pvars

PackageParked ==
    /\ tree = {}
    /\ csv = NoCsv
    /\ sensor_data_df = <<>>
    /\ data_mapping = EmptyMapping
    /\ visited = {}
    /\ pc = "parked"
    /\ exc = "none"
    /\ culprit = None
    /\ log = {}

\* an empty destination; a source tree in which a directory that holds entries
\* exists, and the others may or may not
ImportInit ==
    /\ src \in SubsetsUpTo(SourceEntries, MaxSrc)
    /\ srcDirs \in {{f.dir : f \in src}, Buckets}
    /\ dst = {}
    /\ dstDirs = {}
    /\ dry_run = FALSE
    /\ ipc = "idle"
    /\ todo = {}
    /\ before = [files |-> {}, dirs |-> {}]
    /\ ilog = {}
    /\ runs = 0
    /\ hist = <<>>

InitImport == ImportInit /\ PackageParked

NextImport ==
    \/ ImportCall
    \/ ImportDataFile
    \/ ImportStillsScan
    \/ ImportStillsFile
    \/ ImportVideoScan
    \/ ImportVideoFile
    \/ ImportReturn

SpecImport == InitImport /\ [][NextImport]_vars

\* ------------------------------------------------------------------ _import: properties
Calls == DOMAIN hist
RealCalls == {k \in Calls : ~hist[k].dry}
SrcFilesOf(d) == {f \in src : f.dir = d /\ ~f.isdir}

\* C7 (as claimed): a non-dry-run call that began on an empty destination has
\* linked every .JPG file of the source stills directory into the stills bucket
\* and has gone on to the video bucket.
C7_StillsAllLinked ==
    \A k \in RealCalls :
        (hist[k].before.files = {} /\ hist[k].before.dirs = {}) =>
            /\ \A f \in SrcFilesOf("stills") :
                 EndsWith(f.name, <<".", "J", "P", "G">>) =>
                    DestOf(f, "stills") \in hist[k].after.files
            /\ hist[k].phase = "video"

\* C8 (as claimed, for the calls that reach the video directory): the call
\* returns, and a regular file of the source video directory is in the video
\* bucket exactly if its name has an extension and, without it, ends with "Z" but
\* not with "_Z".
C8_VideoLinkedIffZName ==
    \A k \in RealCalls :
        hist[k].phase = "video" =>
            /\ hist[k].outcome = "returned"
            /\ \A f \in SrcFilesOf("video") :
                 LET dot == LastIndexOf(f.name, ".")
                     stem == SubSeq(f.name, 1, dot - 1)
                 IN  DestOf(f, "video") \in hist[k].after.files <=>
                        /\ dot > 0
                        /\ stem[Len(stem)] = "Z"
                        /\ ~(Len(stem) >= 2 /\ stem[Len(stem) - 1] = "_")

\* C9 (as claimed): a second non-dry-run call after a first one returns, leaves
\* the destination tree as the first call left it, and logs nothing but
\* "already exists" warnings.
C9_SecondRunChangesNothing ==
    \A k \in RealCalls :
        (k > 1 /\ ~hist[k - 1].dry) =>
            /\ hist[k].outcome = "returned"
            /\ hist[k].after = hist[k].before
            /\ \A r \in hist[k].log : r[1] = "warning: already exists"

\* C10 (as claimed): a dry-run call leaves the destination tree, files and
\* directories, as it found it.
C10_DryRunLeavesTreeAlone ==
    \A k \in Calls : hist[k].dry => hist[k].after = hist[k].before

\* ------------------------------------------------------------------ _package: entry shape
\* C11: in every state of _package (so after every iteration of the file loop and
\* in every manifest returned) an entry has a metadata list exactly if it has a raw
\* record; the list then has one element and the file is a .jpg or .mp4 whose name
\* has no _THUMB or _OVERVIEW marker; the call is never left by the
\* "Unsupported file type" ValueError.
C11_MetadataIffRawRecord ==
    /\ \A f \in DOMAIN data_mapping :
         LET e == data_mapping[f] IN
         /\ (e.metadata # None) <=> (e.raw # None)
         /\ (e.metadata # None) =>
              /\ Len(e.metadata[1]) = 1
              /\ IsStill(f) \/ IsVideo(f)
    /\ exc # UnsupportedFileType

\* a returned manifest that holds a matched still and a pass-through thumbnail
C11_Witness ==
    /\ pc = "done"
    /\ tree = {TagFile, StillA, Thumb}
    /\ DOMAIN data_mapping = tree
    /\ data_mapping[StillA].metadata # None
    /\ data_mapping[StillA].raw # None
    /\ data_mapping[Thumb].metadata = None
    /\ data_mapping[TagFile].raw = None

====
